---- MODULE Spec2Model ----
(***************************************************************************)
(* A model of devsantara/head: the HeadBuilder accumulator (both variants, *)
(* src/index.ts and src/builder.ts) and its adapters (the TanStack Router  *)
(* grouping adapter and the React element-tree adapter).                   *)
(*                                                                         *)
(* JavaScript values are modelled as follows.  An attributes object is a   *)
(* function from property names to strings.  A HeadElement is the record   *)
(* [type, attributes].  An array is a sequence.  A value returned by a     *)
(* call is a tagged record [tag, val]; tag "live" is a reference to the    *)
(* builder's own elements array (no copy), every other tag is a value      *)
(* created by the call.                                                    *)
(***************************************************************************)
EXTENDS Integers, Sequences, FiniteSets, TLC

VARIABLES
  this,      \* the HeadBuilder instance: its private fields
  options,   \* what the constructor was called with (never changes)
  calls,     \* the add-calls made so far, <<type, attributes>> each, in order
  chain,     \* what the most recent add-call returned
  got,       \* what the most recent getMetadataBase() returned
  result,    \* what the most recent build() returned
  prev,      \* what the build() before it returned, when no add-call came between
  since,     \* the number of add-calls made since the most recent build()
  builtSize, \* the number of entries the most recent build() result had when returned
  input,     \* an array handed directly to an adapter
  via,       \* the adapter entry point it was handed to
  out        \* what that entry point returned

vars == <<this, options, calls, chain, got, result, prev, since, builtSize, input,
          via, out>>

---------------------------------------------------------------------------
(* Bounds *)

\* add-calls made on one builder
MaxAdds == 3
\* length of an array handed directly to an adapter
MaxLen == 2

---------------------------------------------------------------------------
(* Values *)

Undefined == "undefined"

\* keyof HeadAttributeTypeMap
Kinds == {"meta", "link", "script", "style"}

\* the return value of a call that has not been made
NoValue == [tag |-> "none", val |-> Undefined]

\* a TypeError thrown out of a call ("x.transform is not a function")
TypeError == [tag |-> "throw", val |-> "TypeError"]

\* the URLs a caller passes as metadataBase; Undefined is the omitted argument
BaseUrls == {Undefined, "https://devsantara.com"}

\* attribute objects a caller passes to the builder, per kind
MetaAttrs   == {[name |-> "description", content |-> "x"], [charSet |-> "utf-8"]}
LinkAttrs   == {[rel |-> "canonical", href |-> "/a"]}
ScriptAttrs == {[src |-> "/analytics.js"]}
StyleAttrs  == {[children |-> ".a{}"]}

SeqsUpTo(S, n) == UNION {[1..k -> S] : k \in 0..n}

---------------------------------------------------------------------------
(* utils.ts *)

isElementOfType(element, type) == element.type = type

---------------------------------------------------------------------------
(* adapters/tanstack-router: the grouping adapter *)

EmptyConfig == [meta |-> <<>>, links |-> <<>>, scripts |-> <<>>, styles |-> <<>>]

\* TanstackStep with the script and style pushes exchanged
TanstackStep_swapped(config, element) ==
  IF isElementOfType(element, "meta")
    THEN [config EXCEPT !.meta = Append(@, element.attributes)]
  ELSE IF isElementOfType(element, "link")
    THEN [config EXCEPT !.links = Append(@, element.attributes)]
  ELSE IF isElementOfType(element, "script")
    THEN [config EXCEPT !.styles = Append(@, element.attributes)]
  ELSE IF isElementOfType(element, "style")
    THEN [config EXCEPT !.scripts = Append(@, element.attributes)]
  ELSE config

\* TanstackStep without its last branch: a style element is not pushed
TanstackStep_nostyle(config, element) ==
  IF isElementOfType(element, "meta")
    THEN [config EXCEPT !.meta = Append(@, element.attributes)]
  ELSE IF isElementOfType(element, "link")
    THEN [config EXCEPT !.links = Append(@, element.attributes)]
  ELSE IF isElementOfType(element, "script")
    THEN [config EXCEPT !.scripts = Append(@, element.attributes)]
  ELSE config

\* TanstackStep ending in a plain else: whatever is not meta, link or script
\* is pushed to styles
TanstackStep_default(config, element) ==
  IF isElementOfType(element, "meta")
    THEN [config EXCEPT !.meta = Append(@, element.attributes)]
  ELSE IF isElementOfType(element, "link")
    THEN [config EXCEPT !.links = Append(@, element.attributes)]
  ELSE IF isElementOfType(element, "script")
    THEN [config EXCEPT !.scripts = Append(@, element.attributes)]
  ELSE [config EXCEPT !.styles = Append(@, element.attributes)]

\* one iteration of the for-of loop: the if / else-if chain
TanstackStep(config, element) ==
  IF isElementOfType(element, "meta")
    THEN [config EXCEPT !.meta = Append(@, element.attributes)]
  ELSE IF isElementOfType(element, "link")
    THEN [config EXCEPT !.links = Append(@, element.attributes)]
  ELSE IF isElementOfType(element, "script")
    THEN [config EXCEPT !.scripts = Append(@, element.attributes)]
  ELSE IF isElementOfType(element, "style")
    THEN [config EXCEPT !.styles = Append(@, element.attributes)]
  ELSE config

RECURSIVE TanstackLoop(_, _, _)
TanstackLoop(config, elements, i) ==
  IF i > Len(elements) THEN config
  ELSE TanstackLoop(TanstackStep(config, elements[i]), elements, i + 1)

\* HeadTanstackRouterAdapter.prototype.transform (the current adapter)
HeadTanstackRouterAdapter_transform(elements) ==
  TanstackLoop(EmptyConfig, elements, 1)

\* static HeadTanstackRouterAdapter.adapter (the earlier adapter)
HeadTanstackRouterAdapter_adapter(elements) ==
  TanstackLoop(EmptyConfig, elements, 1)

---------------------------------------------------------------------------
(* adapters/react: the element-tree adapter *)

\* `head-${type}-${index}`; index is the 0-based position Array.map passes
KeyTemplate(type, index) == "head-" \o type \o "-" \o ToString(index)

\* the object literal without the spread: { key: ... }
SpreadConfig_nospread(type, index, attributes) ==
  [p \in {"key"} |-> KeyTemplate(type, index)]

\* the object literal { key: ..., ...attributes }: a later property wins
SpreadConfig(type, index, attributes) ==
  [p \in {"key"} \cup DOMAIN attributes |->
     IF p \in DOMAIN attributes THEN attributes[p] ELSE KeyTemplate(type, index)]

\* React's createElement(type, config): key is taken out of config
\* ('' + config.key, unless undefined), everything else becomes props
createElement(type, config) ==
  [type  |-> type,
   key   |-> IF "key" \in DOMAIN config /\ config["key"] # Undefined
               THEN config["key"] ELSE "null",
   props |-> [p \in DOMAIN config \ {"key"} |-> config[p]]]

\* static HeadReactAdapter.adapter: elements.map((element, index) => ...)
HeadReactAdapter_adapter(elements) ==
  [i \in 1..Len(elements) |->
     createElement(elements[i].type,
                   SpreadConfig(elements[i].type, i - 1, elements[i].attributes))]

---------------------------------------------------------------------------
(* The adapter objects a builder can be constructed with, by the methods   *)
(* each object has.                                                        *)

Adapters == {"HeadTanstackRouterAdapter", "HeadReactAdapter"}

Methods(adapter) ==
  IF adapter = "HeadTanstackRouterAdapter" THEN {"transform"}
  ELSE IF adapter = "HeadReactAdapter" THEN {"adapter"}
  ELSE {}

\* adapter[method](elements): a TypeError ("... is not a function") when the
\* object has no such method, otherwise what the method returns
Invoke(adapter, method, elements) ==
  IF method \notin Methods(adapter) THEN TypeError
  ELSE IF adapter = "HeadTanstackRouterAdapter"
    THEN [tag |-> "config", val |-> HeadTanstackRouterAdapter_transform(elements)]
  ELSE [tag |-> "nodes", val |-> HeadReactAdapter_adapter(elements)]

---------------------------------------------------------------------------
(* HeadBuilder.  variant "index" is src/index.ts (no adapter), variant     *)
(* "builder" is src/builder.ts.  An operation returns [this, ret]: the     *)
(* instance after the call and the value returned.                         *)

Variants == {"index", "builder"}

\* the constructor arguments a caller can pass
Options ==
  [variant : {"index"}, metadataBase : BaseUrls, adapter : {Undefined}]
  \cup [variant : {"builder"}, metadataBase : BaseUrls,
        adapter : {Undefined} \cup Adapters]

\* the constructor forgetting to store metadataBase
HeadBuilder_constructor_nobase(opts) ==
  [variant      |-> opts.variant,
   metadataBase |-> Undefined,
   elements     |-> <<>>,
   adapter      |-> IF opts.variant = "builder" THEN opts.adapter ELSE Undefined]

HeadBuilder_constructor(opts) ==
  [variant      |-> opts.variant,
   metadataBase |-> opts.metadataBase,
   elements     |-> <<>>,
   adapter      |-> IF opts.variant = "builder" THEN opts.adapter ELSE Undefined]

\* addElement skipping a declaration the sequence already holds
addElement_dedup(self, type, attributes) ==
  [this |-> IF \E i \in 1..Len(self.elements) :
                 self.elements[i] = [type |-> type, attributes |-> attributes]
              THEN self
              ELSE [self EXCEPT !.elements =
                      Append(@, [type |-> type, attributes |-> attributes])],
   ret  |-> [tag |-> "this", val |-> Undefined]]

\* addElement with unshift in place of push
addElement_unshift(self, type, attributes) ==
  [this |-> [self EXCEPT !.elements =
                <<[type |-> type, attributes |-> attributes]>> \o @],
   ret  |-> [tag |-> "this", val |-> Undefined]]

addElement(self, type, attributes) ==
  [this |-> [self EXCEPT !.elements =
                Append(@, [type |-> type, attributes |-> attributes])],
   ret  |-> [tag |-> "this", val |-> Undefined]]

getMetadataBase(self) == self.metadataBase

addMeta(self, attributes)   == addElement(self, "meta", attributes)
addLink(self, attributes)   == addElement(self, "link", attributes)
addScript(self, attributes) == addElement(self, "script", attributes)
addStyle(self, attributes)  == addElement(self, "style", attributes)

\* build handing the sequence over and starting a new one
build_consuming(self) ==
  [this |-> [self EXCEPT !.elements = <<>>],
   ret  |-> IF self.variant = "builder" /\ self.adapter # Undefined
              THEN Invoke(self.adapter, "transform", self.elements)
              ELSE [tag |-> "live", val |-> Undefined]]

\* build returning a copy of the sequence: [...this.elements]
build_copy(self) ==
  [this |-> self,
   ret  |-> IF self.variant = "builder" /\ self.adapter # Undefined
              THEN Invoke(self.adapter, "transform", self.elements)
              ELSE [tag |-> "copy", val |-> self.elements]]

build(self) ==
  [this |-> self,
   ret  |-> IF self.variant = "builder" /\ self.adapter # Undefined
              THEN Invoke(self.adapter, "transform", self.elements)
              ELSE [tag |-> "live", val |-> Undefined]]

\* the array a returned value denotes: a "live" value is the builder's own
\* elements array, read now
Deref(r, self) == IF r.tag = "live" THEN self.elements ELSE r.val

\* the number of entries a returned value holds now: the length of a list,
\* the lengths of the four lists of a config together, none for a throw
Size(r, self) ==
  IF r.tag \in {"none", "throw"} THEN 0
  ELSE IF r.tag = "config"
    THEN Len(r.val.meta) + Len(r.val.links) + Len(r.val.scripts) + Len(r.val.styles)
  ELSE Len(Deref(r, self))

---------------------------------------------------------------------------
(* Spec: one builder, any sequence of add, get and build calls *)

Init ==
  /\ options \in Options
  /\ this = HeadBuilder_constructor(options)
  /\ calls = <<>>
  /\ chain = NoValue
  /\ got = NoValue
  /\ result = NoValue
  /\ prev = NoValue
  /\ since = 0
  /\ builtSize = 0
  /\ input = <<>>
  /\ via = "none"
  /\ out = NoValue

Add(r, type, attributes) ==
  /\ Len(calls) < MaxAdds
  /\ this' = r.this
  /\ chain' = r.ret
  /\ calls' = Append(calls, <<type, attributes>>)
  /\ prev' = NoValue
  /\ since' = since + 1
  /\ UNCHANGED <<options, got, result, builtSize, input, via, out>>

AddMeta   == \E a \in MetaAttrs   : Add(addMeta(this, a), "meta", a)
AddLink   == \E a \in LinkAttrs   : Add(addLink(this, a), "link", a)
AddScript == \E a \in ScriptAttrs : Add(addScript(this, a), "script", a)
AddStyle  == \E a \in StyleAttrs  : Add(addStyle(this, a), "style", a)

GetMetadataBase ==
  /\ got' = [tag |-> "url", val |-> getMetadataBase(this)]
  /\ UNCHANGED <<this, options, calls, chain, result, prev, since, builtSize, input,
                 via, out>>

Build ==
  LET r == build(this) IN
  /\ this' = r.this
  /\ result' = r.ret
  /\ prev' = IF since = 0 THEN result ELSE NoValue
  /\ since' = 0
  /\ builtSize' = Size(r.ret, r.this)
  /\ UNCHANGED <<options, calls, chain, got, input, via, out>>

Next ==
  \/ AddMeta
  \/ AddLink
  \/ AddScript
  \/ AddStyle
  \/ GetMetadataBase
  \/ Build

Spec == Init /\ [][Next]_vars

---------------------------------------------------------------------------
(* SpecAdapter: an array handed directly to an adapter entry point.  The   *)
(* entry points are public and take any array, so the arrays include       *)
(* elements whose type is outside the four kinds and attributes that carry *)
(* a key of their own.                                                     *)

AnyKinds == Kinds \cup {"title"}

AnyAttrs ==
  {[name |-> "description"], [key |-> "head-meta-0"],
   [key |-> "k", href |-> "/a"], [key |-> Undefined]}

AnyElements == [type : AnyKinds, attributes : AnyAttrs]

InitAdapter ==
  /\ input \in SeqsUpTo(AnyElements, MaxLen)
  /\ via = "none"
  /\ out = NoValue
  /\ options = [variant |-> "builder", metadataBase |-> Undefined,
                adapter |-> Undefined]
  /\ this = HeadBuilder_constructor(options)
  /\ calls = <<>>
  /\ chain = NoValue
  /\ got = NoValue
  /\ result = NoValue
  /\ prev = NoValue
  /\ since = 0
  /\ builtSize = 0

Returned(entry, value) ==
  /\ via' = entry
  /\ out' = value
  /\ UNCHANGED <<this, options, calls, chain, got, result, prev, since, builtSize,
                 input>>

TanstackTransform ==
  Returned("transform",
           [tag |-> "config", val |-> HeadTanstackRouterAdapter_transform(input)])

TanstackAdapter ==
  Returned("adapter",
           [tag |-> "config", val |-> HeadTanstackRouterAdapter_adapter(input)])

ReactAdapter ==
  Returned("react", Invoke("HeadReactAdapter", "adapter", input))

NextAdapter ==
  \/ TanstackTransform
  \/ TanstackAdapter
  \/ ReactAdapter

SpecAdapter == InitAdapter /\ [][NextAdapter]_vars

---------------------------------------------------------------------------
(* What the claims are stated over *)

\* the declarations the add-calls passed, as HeadElements, in call order
Appended == [i \in 1..Len(calls) |-> [type |-> calls[i][1], attributes |-> calls[i][2]]]

\* the attributes of the elements of s whose type is k, in the order of s
Bucket(s, k) ==
  LET sel == SelectSeq(s, LAMBDA e : e.type = k)
  IN  [i \in 1..Len(sel) |-> sel[i].attributes]

\* a Declaration Sequence: every type is one of the four kinds
IsDeclarationSequence(s) == \A i \in 1..Len(s) : s[i].type \in Kinds

NonKey(f) == [p \in DOMAIN f \ {"key"} |-> f[p]]

IsPrefix(s, t) == Len(s) <= Len(t) /\ \A i \in 1..Len(s) : s[i] = t[i]

---------------------------------------------------------------------------
(* C1: without an adapter, in both builder variants, what build() returned *)
(* is the list of the (kind, attributes) pairs of the add-calls, one entry *)
(* per call, in call order, nothing merged, deduplicated or dropped.       *)
C1_BuildReturnsAppended ==
  (options.adapter = Undefined /\ result.tag # "none") =>
    /\ result.tag = "live"
    /\ Len(Deref(result, this)) = Len(calls)
    /\ Deref(result, this) = Appended

\* build() was called after three add-calls, two of them the same declaration
C1_Witness ==
  /\ options.adapter = Undefined
  /\ result.tag # "none"
  /\ since = 0
  /\ Len(calls) = 3
  /\ calls[1] = calls[3]
  /\ calls[1] # calls[2]

---------------------------------------------------------------------------
(* C2: for a Declaration Sequence, what the grouping adapter returns (by   *)
(* transform or by the static adapter) has exactly the keys meta, links,   *)
(* scripts, styles, and each bucket is the attributes of the declarations  *)
(* of that kind in input order, empty when there is none.                  *)
C2_GroupingBuckets ==
  (via \in {"transform", "adapter"} /\ IsDeclarationSequence(input)) =>
    /\ out.tag = "config"
    /\ DOMAIN out.val = {"meta", "links", "scripts", "styles"}
    /\ out.val.meta = Bucket(input, "meta")
    /\ out.val.links = Bucket(input, "link")
    /\ out.val.scripts = Bucket(input, "script")
    /\ out.val.styles = Bucket(input, "style")

\* two declarations of one kind with different attributes were grouped and
\* the other buckets are empty lists
C2_Witness ==
  /\ via = "transform"
  /\ Len(input) = 2
  /\ input[1].type = "link" /\ input[2].type = "link"
  /\ input[1].attributes # input[2].attributes
  /\ Len(out.val.links) = 2
  /\ out.val.meta = <<>>

---------------------------------------------------------------------------
(* C3: for a Declaration Sequence, the four buckets of the grouping        *)
(* adapter's output hold as many attribute objects in total as the input   *)
(* has declarations.                                                       *)
C3_GroupingCount ==
  (via \in {"transform", "adapter"} /\ IsDeclarationSequence(input)) =>
    Len(out.val.meta) + Len(out.val.links) + Len(out.val.scripts)
      + Len(out.val.styles) = Len(input)

\* a two-declaration sequence of different kinds was grouped
C3_Witness ==
  /\ via = "adapter"
  /\ IsDeclarationSequence(input)
  /\ Len(input) = 2
  /\ input[1].type = "style" /\ input[2].type = "meta"
  /\ out.tag = "config"

---------------------------------------------------------------------------
(* C4: the element-tree adapter returns as many nodes as the input has     *)
(* declarations, node i having the type of declaration i and, the key      *)
(* aside, exactly the attributes of declaration i as its properties.       *)
C4_ElementTreeMap ==
  via = "react" =>
    /\ out.tag = "nodes"
    /\ Len(out.val) = Len(input)
    /\ \A i \in 1..Len(input) :
         /\ out.val[i].type = input[i].type
         /\ out.val[i].props = NonKey(input[i].attributes)
         /\ ("key" \notin DOMAIN input[i].attributes =>
               out.val[i].props = input[i].attributes)

\* two declarations of different kinds and attributes were mapped
C4_Witness ==
  /\ via = "react"
  /\ Len(input) = 2
  /\ input[1].type = "script" /\ input[2].type = "meta"
  /\ input[1].attributes = [name |-> "description"]
  /\ input[2].attributes = [key |-> "k", href |-> "/a"]
  /\ Len(out.val) = 2

---------------------------------------------------------------------------
(* C5: the keys of the nodes the element-tree adapter returns are pairwise *)
(* distinct, the key of node i being head-{kind}-{i}, also when the        *)
(* attributes carry a key entry of their own.                              *)
C5_KeysDistinct ==
  via = "react" =>
    /\ \A i \in 1..Len(out.val) :
         out.val[i].key = KeyTemplate(input[i].type, i - 1)
    /\ \A i, j \in 1..Len(out.val) :
         i # j => out.val[i].key # out.val[j].key

\* the same, for the declarations whose attributes carry no key entry: this
\* much the adapter does
C5_KeysDistinctWithoutOwnKey ==
  (via = "react" /\ \A i \in 1..Len(input) : "key" \notin DOMAIN input[i].attributes) =>
    /\ \A i \in 1..Len(out.val) :
         out.val[i].key = KeyTemplate(input[i].type, i - 1)
    /\ \A i, j \in 1..Len(out.val) :
         i # j => out.val[i].key # out.val[j].key

---------------------------------------------------------------------------
(* C10: given an array with an element whose type is none of the four      *)
(* kinds, the grouping adapter throws nothing, puts that element in no     *)
(* bucket, and buckets every element of a recognized kind as usual.        *)
C10_UnknownKindSkipped ==
  (via \in {"transform", "adapter"} /\ ~IsDeclarationSequence(input)) =>
    /\ out.tag = "config"
    /\ out.val.meta = Bucket(input, "meta")
    /\ out.val.links = Bucket(input, "link")
    /\ out.val.scripts = Bucket(input, "script")
    /\ out.val.styles = Bucket(input, "style")
    /\ Len(out.val.meta) + Len(out.val.links) + Len(out.val.scripts)
         + Len(out.val.styles)
       = Cardinality({i \in 1..Len(input) : input[i].type \in Kinds})

\* an element of an unknown type ahead of a meta declaration: one bucket
\* entry came out
C10_Witness ==
  /\ via = "transform"
  /\ Len(input) = 2
  /\ input[1].type = "title"
  /\ input[2].type = "meta"
  /\ out.tag = "config"
  /\ out.val.meta = <<input[2].attributes>>
  /\ out.val.links = <<>> /\ out.val.scripts = <<>> /\ out.val.styles = <<>>

---------------------------------------------------------------------------
(* C6: two build() calls with no add-call between them return equal        *)
(* results, and build() does not consume the Declaration Sequence: once    *)
(* build() has been called, the sequence still holds every declaration     *)
(* appended, before and after any later add-call.                          *)
C6_BuildIdempotent ==
  /\ prev.tag # "none" => (prev.tag = result.tag /\ prev.val = result.val)
  /\ result.tag # "none" =>
       (Len(this.elements) = Len(calls) /\ this.elements = Appended)

\* build() twice in a row through the grouping adapter, on two declarations
C6_Witness ==
  /\ prev.tag # "none"
  /\ result.tag = "config"
  /\ since = 0
  /\ Len(calls) = 2
  /\ Len(this.elements) = 2

---------------------------------------------------------------------------
(* C7: build() on a builder constructed with an adapter returns what that  *)
(* adapter's transformation gives for the sequence as it stands at the     *)
(* call, for the grouping adapter and for the element-tree adapter, and    *)
(* throws nothing; without an adapter it returns the sequence itself.      *)
C7_BuildAppliesAdapter ==
  (result.tag # "none" /\ since = 0) =>
    IF options.adapter = Undefined
      THEN result.tag = "live"
    ELSE IF options.adapter = "HeadTanstackRouterAdapter"
      THEN /\ result.tag = "config"
           /\ result.val = HeadTanstackRouterAdapter_transform(this.elements)
    ELSE /\ result.tag = "nodes"
         /\ result.val = HeadReactAdapter_adapter(this.elements)

---------------------------------------------------------------------------
---------------------------------------------------------------------------
(* C9: the Declaration Sequence is empty at construction; every step keeps *)
(* the earlier sequence as a prefix of the later one; an add-call returns  *)
(* the instance it was called on and grows the sequence by exactly the     *)
(* declaration passed, of the kind of the call, at the end.                *)
C9_AppendOnly ==
  /\ this.elements = <<>>
  /\ [][/\ IsPrefix(this.elements, this'.elements)
        /\ calls' # calls =>
             /\ chain' = [tag |-> "this", val |-> Undefined]
             /\ Len(this'.elements) = Len(this.elements) + 1
             /\ this'.elements =
                  Append(this.elements,
                         [type |-> calls'[Len(calls')][1],
                          attributes |-> calls'[Len(calls')][2]])
             /\ this'.metadataBase = this.metadataBase
             /\ this'.adapter = this.adapter]_vars

\* three add-calls of three kinds, with build() called along the way
C9_Witness ==
  /\ Len(this.elements) = 3
  /\ chain.tag = "this"
  /\ result.tag # "none"
  /\ this.elements[1].type = "style"
  /\ this.elements[2].type = "meta"
  /\ this.elements[3].type = "script"

---------------------------------------------------------------------------
(* C11: without an adapter build() returns the builder's own list, not a   *)
(* snapshot: after k further add-calls the value returned earlier has k    *)
(* more entries and equals what a new build() returns; a value returned    *)
(* through the grouping adapter keeps the entries it had, those of the     *)
(* declarations appended before that build().                              *)
C11_LiveListFreshConfig ==
  result.tag # "none" =>
    /\ options.adapter = Undefined =>
         /\ Size(result, this) = builtSize + since
         /\ Deref(result, this) = Deref(build(this).ret, build(this).this)
         /\ Deref(result, this) = Appended
    /\ options.adapter = "HeadTanstackRouterAdapter" =>
         /\ result.tag = "config"
         /\ Size(result, this) = builtSize
         /\ builtSize = Len(calls) - since
         /\ result.val =
              HeadTanstackRouterAdapter_transform(SubSeq(Appended, 1, builtSize))

\* build() returned a one-entry list, two add-calls followed, and the value
\* returned then has three entries
C11_Witness ==
  /\ options.adapter = Undefined
  /\ result.tag = "live"
  /\ builtSize = 1
  /\ since = 2
  /\ Len(Deref(result, this)) = 3

\* a config returned for one declaration, with two add-calls made since
C11_WitnessConfig ==
  /\ options.adapter = "HeadTanstackRouterAdapter"
  /\ result.tag = "config"
  /\ builtSize = 1
  /\ since = 2
  /\ Len(this.elements) = 3

====
